---- MODULE Spec2Model ----
(***************************************************************************)
(* Session file-change tracking of the desktop chat client:                *)
(*   - getSessionTouchedFiles, countLineDifferences, getChangeStatus       *)
(*     (packages/ui/.../ShikiDiffViewer.tsx, "Session Changes" part)       *)
(*   - getOriginalFromHead, getCurrentFromDisk, getFileDiff (main/git.ts)  *)
(*   - the polling SessionChangesSection component                         *)
(* Strings whose characters matter (paths, tool names, file contents) are  *)
(* sequences of UTF-16 code units, so that toLowerCase, trim, split and    *)
(* the two orderings are computed and not assumed.                         *)
(***************************************************************************)
EXTENDS Integers, Sequences, FiniteSets, TLC

VARIABLES
    \* getSessionTouchedFiles
    files,          \* the Set<string> `files`, in insertion order
    msg,            \* the message of the current loop iteration
    contributed,    \* <<p>> when the iteration reached files.add(p), else <<>>
    output,         \* the returned array
    readded,        \* some files.add(p) of this call found p already in the Set
    tpc,            \* "loop" | "iterEnd" | "returned"
    \* git.ts / line-diff functions: the last call and what it returned
    call,
    \* getFileDiff step by step: where one call is and what it has started
    fd,
    \* SessionChangesSection
    sessionId,      \* the sessionId prop
    lifecycle,      \* "rendered" (effect not yet run) | "mounted" | "unmounted"
    mountedRef,     \* mountedRef.current
    changesResult,  \* useState changesResult
    isLoading,      \* useState isLoading
    intervalActive, \* the setInterval of the current effect is live
    inflight,       \* pending getSessionChanges calls, in issue order
    event,          \* the last step of the component
    prevShown,      \* a result was displayed right before the last step
    polledWorld,    \* the HEAD/disk snapshot the displayed result was computed from
    shownFor,       \* the session whose poll produced changesResult
    regressed,      \* the last step stored the result of a poll issued before
                    \* an already stored poll of its session
    \* useNotificationSounds: the hook's state and one playSound call
    snd,
    \* findGitRoot: one call, its loop variable and the file system it sees
    walk,
    \* the projects atoms: projectsAtom, selectedProjectIdAtom, sidebarViewModeAtom
    atoms,
    \* projects/storage.ts: the project directories of one workspace and the
    \* last operation on them
    store

touchedVars == <<files, msg, contributed, output, readded, tpc>>
diffVars    == <<call>>
stepVars    == <<fd>>
pollVars    == <<sessionId, lifecycle, mountedRef, changesResult, isLoading,
                 intervalActive, inflight, event, prevShown, polledWorld,
                 shownFor, regressed>>
baseVars    == <<touchedVars, diffVars, stepVars, pollVars>>
soundVars   == <<snd>>
\* the state of the parts that follow the session-changes ones
walkVars    == <<walk>>
atomVars    == <<atoms>>
storeVars   == <<store>>
laterVars   == <<soundVars, walkVars, atomVars, storeVars>>
vars        == <<baseVars, laterVars>>

----------------------------------------------------------------------------
(* Strings as sequences of code units *)

\* code units used below: 10 "\n", 32 " ", 65..90 "A".."Z", 97..122 "a".."z"
Str_edit      == <<101, 100, 105, 116>>
Str_Edit      == <<69, 100, 105, 116>>
Str_write     == <<119, 114, 105, 116, 101>>
Str_WRITE     == <<87, 82, 73, 84, 69>>
Str_multiedit == <<109, 117, 108, 116, 105, 101, 100, 105, 116>>
Str_MultiEdit == <<77, 117, 108, 116, 105, 69, 100, 105, 116>>
Str_read      == <<114, 101, 97, 100>>
Str_a         == <<97>>
Str_b         == <<98>>
Str_B         == <<66>>
Str_sp_a      == <<32, 97>>
Str_sp        == <<32>>
Str_empty     == <<>>

IsUpper(c) == c \in 65..90

\* String.prototype.toLowerCase on ASCII
ToLowerCase(s) == [i \in DOMAIN s |-> IF IsUpper(s[i]) THEN s[i] + 32 ELSE s[i]]

IsWhite(c) == c \in {9, 10, 13, 32}

\* String.prototype.trim
RECURSIVE TrimStart(_)
TrimStart(s) == IF s # <<>> /\ IsWhite(Head(s)) THEN TrimStart(Tail(s)) ELSE s
RECURSIVE TrimEnd(_)
TrimEnd(s) ==
    IF s # <<>> /\ IsWhite(s[Len(s)]) THEN TrimEnd(SubSeq(s, 1, Len(s) - 1)) ELSE s
Trim(s) == TrimEnd(TrimStart(s))

\* lexicographic comparison of two sequences of integers: -1, 0 or 1
RECURSIVE LexCompare(_, _)
LexCompare(x, y) ==
    IF x = <<>> /\ y = <<>> THEN 0
    ELSE IF x = <<>> THEN -1
    ELSE IF y = <<>> THEN 1
    ELSE IF Head(x) < Head(y) THEN -1
    ELSE IF Head(x) > Head(y) THEN 1
    ELSE LexCompare(Tail(x), Tail(y))

\* String.prototype.localeCompare under the ICU root collation, on ASCII
\* letters and the space: first the primary weights (letters without their case,
\* the space below every letter), then, on a primary tie, the case, lowercase
\* first.
PrimaryKey(s)  == [i \in DOMAIN s |-> IF IsUpper(s[i]) THEN s[i] + 32 ELSE s[i]]
TertiaryKey(s) == [i \in DOMAIN s |-> IF IsUpper(s[i]) THEN 1 ELSE 0]
LocaleCompare(a, b) ==
    LET p == LexCompare(PrimaryKey(a), PrimaryKey(b))
    IN  IF p # 0 THEN p ELSE LexCompare(TertiaryKey(a), TertiaryKey(b))

----------------------------------------------------------------------------
(* JavaScript values of the fields of toolInput (Record<string, unknown>) *)

JSUndefined  == [t |-> "undefined", v |-> <<>>]
JSString(s)  == [t |-> "string", v |-> s]
JSNumber(n)  == [t |-> "number", v |-> <<n>>]

Truthy(x) ==
    CASE x.t = "string" -> x.v # <<>>
      [] x.t = "number" -> x.v # <<0>>
      [] OTHER -> FALSE

\* a || b
JSOr(a, b) == IF Truthy(a) THEN a ELSE b

----------------------------------------------------------------------------
(* getSessionTouchedFiles *)

Absent == "<absent>"
Discriminators == {Absent, "tool", "assistant"}

ToolNames ==
    {JSUndefined} \cup
    {JSString(s) : s \in {Str_empty, Str_edit, Str_Edit, Str_WRITE, Str_MultiEdit, Str_read}}

\* the path values a toolInput field may hold
PathStrings == {Str_a, Str_B, Str_b, Str_sp_a}
FieldValues ==
    {JSUndefined, JSNumber(42), JSString(Str_empty), JSString(Str_sp)}
    \cup {JSString(p) : p \in PathStrings}

NoInput == [present |-> FALSE, file_path |-> JSUndefined, path |-> JSUndefined]
ToolInputs ==
    {NoInput} \cup
    {[present |-> TRUE, file_path |-> f, path |-> p] : f \in FieldValues, p \in FieldValues}

Messages ==
    [type : Discriminators, role : Discriminators, toolName : ToolNames,
     toolInput : ToolInputs]

NoMsg == [type |-> Absent, role |-> Absent, toolName |-> JSUndefined, toolInput |-> NoInput]

FILE_MODIFYING_TOOLS == <<Str_edit, Str_write, Str_multiedit>>

Includes(arr, x) == \E i \in DOMAIN arr : arr[i] = x

IsToolMessageTypeOnly(m) == m.type = "tool"
isToolMessage(m) == m.type = "tool" \/ m.role = "tool"

\* msg.toolName?.toLowerCase()
LoweredToolNameVerbatim(m) == m.toolName
LoweredToolName(m) ==
    IF m.toolName.t = "string" THEN JSString(ToLowerCase(m.toolName.v)) ELSE JSUndefined

\* the value of `filePath` (line 263)
ExtractedPath(m) == JSOr(m.toolInput.file_path, m.toolInput.path)

\* the loop body: <<p>> when files.add(p) is reached, <<>> on a `continue`
\* or a failed `if`
Contribution(m) ==
    IF ~isToolMessage(m) \/ ~m.toolInput.present THEN <<>>
    ELSE LET toolName == LoweredToolName(m)
         IN  IF ~Truthy(toolName) \/ ~Includes(FILE_MODIFYING_TOOLS, toolName.v) THEN <<>>
             ELSE LET filePath == ExtractedPath(m)
                  IN  IF filePath.t = "string" /\ Trim(filePath.v) # <<>>
                      THEN <<filePath.v>>
                      ELSE <<>>

\* Set.prototype.add on an insertion-ordered Set
SetAddNoDedupe(s, p) == Append(s, p)
SetAdd(s, p) == IF Includes(s, p) THEN s ELSE Append(s, p)

\* Array.prototype.sort((a, b) => a.localeCompare(b)): a stable sort
RECURSIVE InsertSorted(_, _)
InsertSorted(sorted, x) ==
    IF sorted = <<>> THEN <<x>>
    ELSE IF LocaleCompare(Head(sorted), x) <= 0
         THEN <<Head(sorted)>> \o InsertSorted(Tail(sorted), x)
         ELSE <<x>> \o sorted
RECURSIVE SortLoop(_, _)
SortLoop(sorted, rest) ==
    IF rest = <<>> THEN sorted ELSE SortLoop(InsertSorted(sorted, Head(rest)), Tail(rest))
SortedFilesUnsorted(s) == s
SortedFiles(s) == SortLoop(<<>>, s)

\* one iteration of `for (const msg of messages)`
LoopIteration ==
    /\ tpc = "loop"
    /\ \E m \in Messages :
          LET c == Contribution(m)
          IN  /\ msg' = m
              /\ contributed' = c
              /\ files' = IF c # <<>> THEN SetAdd(files, c[1]) ELSE files
              /\ readded' = (readded \/ (c # <<>> /\ Includes(files, c[1])))
    /\ tpc' = "iterEnd"
    /\ UNCHANGED <<output, diffVars, stepVars, pollVars, laterVars>>

\* the iteration ends: its `msg` binding goes out of scope
EndIteration ==
    /\ tpc = "iterEnd"
    /\ tpc' = "loop"
    /\ msg' = NoMsg
    /\ contributed' = <<>>
    /\ UNCHANGED <<files, output, readded, diffVars, stepVars, pollVars, laterVars>>

\* the loop is over: return Array.from(files).sort(...)
ReturnTouched ==
    /\ tpc = "loop"
    /\ output' = SortedFiles(files)
    /\ tpc' = "returned"
    /\ UNCHANGED <<files, msg, contributed, readded, diffVars, stepVars, pollVars, laterVars>>

\* the next call of getSessionTouchedFiles
CallTouched ==
    /\ tpc = "returned"
    /\ files' = <<>>
    /\ output' = <<>>
    /\ readded' = FALSE
    /\ tpc' = "loop"
    /\ UNCHANGED <<msg, contributed, diffVars, stepVars, pollVars, laterVars>>

NextTouched == LoopIteration \/ EndIteration \/ ReturnTouched \/ CallTouched

----------------------------------------------------------------------------
(* countLineDifferences, getChangeStatus *)

MaxTextLen == 3
NL == 10

RECURSIVE SeqsUpTo(_, _)
SeqsUpTo(S, n) ==
    IF n = 0 THEN {<<>>}
    ELSE LET shorter == SeqsUpTo(S, n - 1)
         IN  shorter \cup {Append(t, c) : t \in shorter, c \in S}

\* file contents: texts over "a", "b" and the newline
Texts == SeqsUpTo({97, 98, NL}, MaxTextLen)

\* String.prototype.split('\n'): never empty, "" splits to [""]
RECURSIVE SplitFrom(_, _, _)
SplitFrom(s, i, cur) ==
    IF i > Len(s) THEN <<cur>>
    ELSE IF s[i] = NL THEN <<cur>> \o SplitFrom(s, i + 1, <<>>)
    ELSE SplitFrom(s, i + 1, Append(cur, s[i]))
SplitLines(s) == SplitFrom(s, 1, <<>>)

SeqToSet(q) == {q[i] : i \in DOMAIN q}

\* the two counting loops: one increment per element of the array that the
\* other side's Set does not hold
CountMissing(lines, otherSet) ==
    Cardinality({i \in DOMAIN lines : lines[i] \notin otherSet})
CountMissingDistinct(lines, otherSet) ==
    Cardinality(SeqToSet(lines) \ otherSet)

countLineDifferencesDistinct(original, modified) ==
    LET originalLines == SplitLines(original)
        modifiedLines == SplitLines(modified)
    IN  [additions |-> CountMissingDistinct(modifiedLines, SeqToSet(originalLines)),
         deletions |-> CountMissingDistinct(originalLines, SeqToSet(modifiedLines))]
countLineDifferencesInverted(original, modified) ==
    LET originalLines == SplitLines(original)
        modifiedLines == SplitLines(modified)
    IN  [additions |-> Len(modifiedLines) - CountMissing(modifiedLines, SeqToSet(originalLines)),
         deletions |-> Len(originalLines) - CountMissing(originalLines, SeqToSet(modifiedLines))]
countLineDifferencesPositional(original, modified) ==
    LET originalLines == SplitLines(original)
        modifiedLines == SplitLines(modified)
        Differs(x, y, i) == i > Len(y) \/ x[i] # y[i]
    IN  [additions |-> Cardinality({i \in DOMAIN modifiedLines :
                                        Differs(modifiedLines, originalLines, i)}),
         deletions |-> Cardinality({i \in DOMAIN originalLines :
                                        Differs(originalLines, modifiedLines, i)})]
countLineDifferences(original, modified) ==
    LET originalLines == SplitLines(original)
        modifiedLines == SplitLines(modified)
        originalSet   == SeqToSet(originalLines)
        modifiedSet   == SeqToSet(modifiedLines)
    IN  [additions |-> CountMissing(modifiedLines, originalSet),
         deletions |-> CountMissing(originalLines, modifiedSet)]

getChangeStatusEmptyIsAdded(original, modified) ==
    IF original = <<>> THEN "added"
    ELSE IF modified = <<>> THEN "deleted"
    ELSE "modified"
getChangeStatus(original, modified) ==
    IF original = <<>> /\ modified # <<>> THEN "added"
    ELSE IF original # <<>> /\ modified = <<>> THEN "deleted"
    ELSE "modified"

----------------------------------------------------------------------------
(* git.ts: content retrieval and getFileDiff *)

\* what `git show HEAD:"<path>"` does: prints the content, or fails
GitShowOk(c)     == [kind |-> "ok", content |-> c]
GitShowFailures  ==
    {[kind |-> k, content |-> <<>>] :
        k \in {"not_in_head", "not_a_repo", "timeout", "max_buffer"}}
\* what the file system does: the file is read, is missing, or the read fails
DiskOk(c)        == [kind |-> "ok", content |-> c]
DiskFailures     ==
    {[kind |-> k, content |-> <<>>] : k \in {"missing", "read_error", "deleted_after_check"}}

HeadOutcomes == {GitShowOk(c) : c \in Texts} \cup GitShowFailures
DiskOutcomes == {DiskOk(c) : c \in Texts} \cup DiskFailures

\* how a call ends: it returns (resolves with) a value, throws (rejects), or
\* never comes back
Returned(v) == [threw |-> FALSE, hung |-> FALSE, value |-> v]
Thrown(v)   == [threw |-> TRUE, hung |-> FALSE, value |-> v]
Hung(v)     == [threw |-> FALSE, hung |-> TRUE, value |-> v]

GitShowTimeoutMs   == 10000
RevParseTimeoutMs  == 5000
DiffQuietTimeoutMs == 5000

\* execSync(cmd, {timeout, ...}): returns stdout when the subprocess exits
\* with 0; throws when it exits otherwise, overruns maxBuffer, cannot be
\* spawned, or is killed at the timeout; without a timeout it waits for a
\* subprocess that never ends.  `nothing` is the value of no result.
ExecSync(kind, stdout, timeoutMs, nothing) ==
    IF kind = "ok" THEN Returned(stdout)
    ELSE IF kind = "timeout" /\ timeoutMs = 0 THEN Hung(nothing)
    ELSE Thrown(nothing)

\* try { ... } catch { return fallback }
CatchNothing(c, fallback) == c
CatchAll(c, fallback) == IF c.threw THEN Returned(fallback) ELSE c

\* getOriginalFromHead as a call: how its promise settles
getOriginalFromHeadUncaught(h) == ExecSync(h.kind, h.content, GitShowTimeoutMs, <<>>)
getOriginalFromHeadCall(h) ==
    CatchAll(ExecSync(h.kind, h.content, GitShowTimeoutMs, <<>>), <<>>)

\* the string getOriginalFromHead resolves to
getOriginalFromHead(h) == getOriginalFromHeadCall(h).value

existsSync(d) == d.kind # "missing"
readFile(d)   == IF d.kind = "ok" THEN Returned(d.content) ELSE Thrown(<<>>)

\* getCurrentFromDisk as a call: how its promise settles
getCurrentFromDiskUnchecked(d) == CatchNothing(readFile(d), <<>>)
getCurrentFromDiskCall(d) ==
    IF ~existsSync(d) THEN Returned(<<>>) ELSE CatchAll(readFile(d), <<>>)

\* the string getCurrentFromDisk resolves to
getCurrentFromDisk(d) == getCurrentFromDiskCall(d).value

\* what `git rev-parse --git-dir` does in the directory
RevParseOutcomes == {"ok", "not_a_repo", "git_missing", "timeout"}

isGitRepoUncaught(o) ==
    LET c == ExecSync(o, TRUE, RevParseTimeoutMs, FALSE)
    IN  IF c.threw THEN c ELSE Returned(TRUE)
isGitRepo(o) ==
    LET c == ExecSync(o, TRUE, RevParseTimeoutMs, FALSE)
    IN  IF c.threw THEN Returned(FALSE) ELSE IF c.hung THEN c ELSE Returned(TRUE)

\* what `git diff --quiet HEAD -- "<path>"` does: "ok" is exit status 0,
\* "changed" is exit status 1
DiffQuietOutcomes == {"ok", "changed", "not_a_repo", "git_missing", "timeout"}

hasChangesErrorsAsUnchanged(o) ==
    LET c == ExecSync(o, TRUE, DiffQuietTimeoutMs, FALSE)
    IN  IF c.hung THEN c ELSE Returned(o = "changed")
hasChanges(o) ==
    LET c == ExecSync(o, TRUE, DiffQuietTimeoutMs, FALSE)
    IN  IF c.threw THEN Returned(TRUE) ELSE IF c.hung THEN c ELSE Returned(FALSE)

\* await Promise.all([getOriginalFromHead(...), getCurrentFromDisk(...)])
\* rejects when either rejects
getFileDiffThrows(h, d) ==
    getOriginalFromHeadCall(h).threw \/ getCurrentFromDiskCall(d).threw

getFileDiffAlwaysModified(filePath, h, d) ==
    LET original == getOriginalFromHead(h)
        modified == getCurrentFromDisk(d)
        counts   == countLineDifferences(original, modified)
    IN  [filePath |-> filePath, status |-> "modified",
         additions |-> IF original = modified THEN 0 ELSE counts.additions,
         deletions |-> IF original = modified THEN 0 ELSE counts.deletions,
         original |-> IF original = modified THEN <<>> ELSE original,
         modified |-> IF original = modified THEN <<>> ELSE modified]
getFileDiff(filePath, h, d) ==
    LET original == getOriginalFromHead(h)
        modified == getCurrentFromDisk(d)
    IN  IF original = modified
        THEN [filePath |-> filePath, status |-> "modified", additions |-> 0,
              deletions |-> 0, original |-> <<>>, modified |-> <<>>]
        ELSE LET counts == countLineDifferences(original, modified)
             IN  [filePath |-> filePath, status |-> getChangeStatus(original, modified),
                  additions |-> counts.additions, deletions |-> counts.deletions,
                  original |-> original, modified |-> modified]

NoCall == [op |-> "none"]

\* a caller evaluates countLineDifferences(original, modified)
CallCountLineDifferences ==
    /\ call.op = "none"
    /\ \E original \in Texts, modified \in Texts :
          call' = [op |-> "countLineDifferences", original |-> original,
                   modified |-> modified,
                   result |-> countLineDifferences(original, modified)]
    /\ UNCHANGED <<touchedVars, stepVars, pollVars, laterVars>>

\* a caller evaluates getChangeStatus(original, modified)
CallGetChangeStatus ==
    /\ call.op = "none"
    /\ \E original \in Texts, modified \in Texts :
          call' = [op |-> "getChangeStatus", original |-> original,
                   modified |-> modified,
                   result |-> getChangeStatus(original, modified)]
    /\ UNCHANGED <<touchedVars, stepVars, pollVars, laterVars>>

DiffPaths == {Str_a, Str_B}

\* a caller awaits getFileDiff(workingDir, filePath) in a working directory
\* where `git show` ends as h and the file system answers d
CallGetFileDiff ==
    /\ call.op = "none"
    /\ \E filePath \in DiffPaths, h \in HeadOutcomes, d \in DiskOutcomes :
          call' = [op |-> "getFileDiff", filePath |-> filePath, head |-> h, disk |-> d,
                   threw |-> getFileDiffThrows(h, d),
                   result |-> getFileDiff(filePath, h, d)]
    /\ UNCHANGED <<touchedVars, stepVars, pollVars, laterVars>>

\* a caller awaits getOriginalFromHead(workingDir, filePath)
CallGetOriginalFromHead ==
    /\ call.op = "none"
    /\ \E h \in HeadOutcomes :
          call' = [op |-> "getOriginalFromHead", head |-> h,
                   result |-> getOriginalFromHeadCall(h)]
    /\ UNCHANGED <<touchedVars, stepVars, pollVars, laterVars>>

\* a caller awaits getCurrentFromDisk(filePath)
CallGetCurrentFromDisk ==
    /\ call.op = "none"
    /\ \E d \in DiskOutcomes :
          call' = [op |-> "getCurrentFromDisk", disk |-> d,
                   result |-> getCurrentFromDiskCall(d)]
    /\ UNCHANGED <<touchedVars, stepVars, pollVars, laterVars>>

\* a caller evaluates isGitRepo(workingDir)
CallIsGitRepo ==
    /\ call.op = "none"
    /\ \E o \in RevParseOutcomes :
          call' = [op |-> "isGitRepo", git |-> o, result |-> isGitRepo(o)]
    /\ UNCHANGED <<touchedVars, stepVars, pollVars, laterVars>>

\* a caller awaits hasChanges(workingDir, filePath)
CallHasChanges ==
    /\ call.op = "none"
    /\ \E o \in DiffQuietOutcomes :
          call' = [op |-> "hasChanges", git |-> o, result |-> hasChanges(o)]
    /\ UNCHANGED <<touchedVars, stepVars, pollVars, laterVars>>

\* the caller is done with the returned value
CallReturn ==
    /\ call.op # "none"
    /\ call' = NoCall
    /\ UNCHANGED <<touchedVars, stepVars, pollVars, laterVars>>

NextDiff ==
    \/ CallCountLineDifferences
    \/ CallGetChangeStatus
    \/ CallGetFileDiff
    \/ CallGetOriginalFromHead
    \/ CallGetCurrentFromDisk
    \/ CallIsGitRepo
    \/ CallHasChanges
    \/ CallReturn

----------------------------------------------------------------------------
(* getFileDiff, one step of the event loop at a time *)

FdIdle ==
    [pc |-> "idle", filePath |-> <<>>, head |-> GitShowOk(<<>>), disk |-> DiskOk(<<>>),
     git |-> "notStarted", read |-> "notStarted", result |-> <<>>]

\* getFileDiff is called; the first element of the Promise.all array is
\* evaluated: getOriginalFromHead runs up to its execSync, which blocks
FdCall ==
    /\ fd.pc = "idle"
    /\ \E filePath \in DiffPaths, h \in HeadOutcomes, d \in DiskOutcomes :
          fd' = [FdIdle EXCEPT !.pc = "gitShow", !.filePath = filePath, !.head = h,
                               !.disk = d, !.git = "running"]
    /\ UNCHANGED <<touchedVars, diffVars, pollVars, laterVars>>

\* execSync returns or throws into the catch: getOriginalFromHead returns its
\* (already settled) promise
FdGitShowEnds ==
    /\ fd.pc = "gitShow"
    /\ fd' = [fd EXCEPT !.pc = "gitDone", !.git = "done"]
    /\ UNCHANGED <<touchedVars, diffVars, pollVars, laterVars>>

\* the second element of the array is evaluated: getCurrentFromDisk checks
\* existsSync and, for an existing file, starts readFile; then Promise.all is
\* awaited
FdDiskStart ==
    /\ fd.pc = "gitDone"
    /\ fd' = [fd EXCEPT !.pc = "awaiting",
                         !.read = IF existsSync(fd.disk) THEN "reading" ELSE "done"]
    /\ UNCHANGED <<touchedVars, diffVars, pollVars, laterVars>>

\* readFile settles
FdReadEnds ==
    /\ fd.pc = "awaiting"
    /\ fd.read = "reading"
    /\ fd' = [fd EXCEPT !.read = "done"]
    /\ UNCHANGED <<touchedVars, diffVars, pollVars, laterVars>>

\* Promise.all has resolved: the comparison, the counts and the status
FdCompute ==
    /\ fd.pc = "awaiting"
    /\ fd.git = "done"
    /\ fd.read = "done"
    /\ fd' = [fd EXCEPT !.pc = "returned",
                         !.result = <<getFileDiff(fd.filePath, fd.head, fd.disk)>>]
    /\ UNCHANGED <<touchedVars, diffVars, pollVars, laterVars>>

\* the caller is done with the entry
FdReturn ==
    /\ fd.pc = "returned"
    /\ fd' = FdIdle
    /\ UNCHANGED <<touchedVars, diffVars, pollVars, laterVars>>

NextFileDiff == FdCall \/ FdGitShowEnds \/ FdDiskStart \/ FdReadEnds \/ FdCompute \/ FdReturn

----------------------------------------------------------------------------
(* The getSessionChanges aggregation behind window.electronAPI *)

\* a working directory: whether it is a repository, and per touched file
\* what HEAD and the disk hold
PollTouched == SortedFiles(<<Str_B, Str_a>>)
PollHeadOutcomes(repo) ==
    IF repo THEN {GitShowOk(Str_a), [kind |-> "not_in_head", content |-> <<>>]}
    ELSE {[kind |-> "not_a_repo", content |-> <<>>]}
PollDiskOutcomes == {DiskOk(Str_a), DiskOk(Str_b), [kind |-> "missing", content |-> <<>>]}
PollWorlds ==
    UNION {[repo : {r},
            head : [SeqToSet(PollTouched) -> PollHeadOutcomes(r)],
            disk : [SeqToSet(PollTouched) -> PollDiskOutcomes]] : r \in BOOLEAN}

\* one entry per touched file, in the extractor's order
getSessionChanges(touched, world) ==
    [files |-> [i \in DOMAIN touched |->
                    getFileDiff(touched[i], world.head[touched[i]], world.disk[touched[i]])],
     isGitRepo |-> world.repo]

----------------------------------------------------------------------------
(* SessionChangesSection *)

MaxInFlight == 2

NoSession  == "<none>"
SessionIds == {"A", "B"}

None    == <<>>
Some(x) == <<x>>

\* loadChanges() of the render whose sessionId is sid
LoadChanges(sid) ==
    IF sid = NoSession
    THEN /\ changesResult' = None
         /\ polledWorld' = None
         /\ shownFor' = NoSession
         /\ UNCHANGED <<isLoading, inflight>>
    ELSE /\ isLoading' = TRUE
         /\ inflight' = Append(inflight, [sid |-> sid, superseded |-> FALSE])
         /\ UNCHANGED <<changesResult, polledWorld, shownFor>>

CanIssue(sid) == sid = NoSession \/ Len(inflight) < MaxInFlight

\* the mount effect: mountedRef.current = true; loadChanges(); setInterval
RunEffect ==
    /\ lifecycle = "rendered"
    /\ CanIssue(sessionId)
    /\ lifecycle' = "mounted"
    /\ mountedRef' = TRUE
    /\ LoadChanges(sessionId)
    /\ intervalActive' = TRUE
    /\ event' = "effect"
    /\ regressed' = FALSE
    /\ prevShown' = (changesResult # None)
    /\ UNCHANGED <<sessionId, touchedVars, diffVars, stepVars, laterVars>>

\* the interval fires: setInterval(loadChanges, 10000)
IntervalTick ==
    /\ lifecycle = "mounted"
    /\ intervalActive
    /\ CanIssue(sessionId)
    /\ LoadChanges(sessionId)
    /\ event' = "tick"
    /\ regressed' = FALSE
    /\ prevShown' = (changesResult # None)
    /\ UNCHANGED <<sessionId, lifecycle, mountedRef, intervalActive, touchedVars, diffVars, stepVars, laterVars>>

\* the sessionId prop changes: the effect's cleanup, then the effect again
ChangeSession ==
    /\ lifecycle = "mounted"
    /\ \E s \in (SessionIds \cup {NoSession}) \ {sessionId} :
          /\ CanIssue(s)
          /\ sessionId' = s
          /\ LoadChanges(s)
    /\ mountedRef' = TRUE
    /\ intervalActive' = TRUE
    /\ event' = "session"
    /\ regressed' = FALSE
    /\ prevShown' = (changesResult # None)
    /\ UNCHANGED <<lifecycle, touchedVars, diffVars, stepVars, laterVars>>

UnmountLeavesRef ==
    /\ lifecycle = "mounted"
    /\ lifecycle' = "unmounted"
    /\ intervalActive' = FALSE
    /\ event' = "unmount"
    /\ regressed' = FALSE
    /\ prevShown' = (changesResult # None)
    /\ UNCHANGED <<sessionId, mountedRef, changesResult, isLoading, inflight, polledWorld,
                   shownFor, touchedVars, diffVars, stepVars, laterVars>>
\* the component unmounts: the effect's cleanup
Unmount ==
    /\ lifecycle = "mounted"
    /\ lifecycle' = "unmounted"
    /\ mountedRef' = FALSE
    /\ intervalActive' = FALSE
    /\ event' = "unmount"
    /\ regressed' = FALSE
    /\ prevShown' = (changesResult # None)
    /\ UNCHANGED <<sessionId, changesResult, isLoading, inflight, polledWorld, shownFor,
                   touchedVars, diffVars, stepVars, laterVars>>

RemoveAt(q, i) == SubSeq(q, 1, i - 1) \o SubSeq(q, i + 1, Len(q))

\* the poll at position i has stored its result: the polls of its session
\* that were issued before it and are still pending are now behind it
MarkSuperseded(q, i) ==
    [j \in DOMAIN q |->
        IF j < i /\ q[j].sid = q[i].sid THEN [q[j] EXCEPT !.superseded = TRUE] ELSE q[j]]

\* a pending getSessionChanges resolves
PollResolve ==
    /\ \E i \in DOMAIN inflight, world \in PollWorlds :
          IF mountedRef
          THEN /\ changesResult' = Some(getSessionChanges(PollTouched, world))
               /\ polledWorld' = Some(world)
               /\ isLoading' = FALSE
               /\ shownFor' = inflight[i].sid
               /\ regressed' = inflight[i].superseded
               /\ inflight' = RemoveAt(MarkSuperseded(inflight, i), i)
          ELSE /\ inflight' = RemoveAt(inflight, i)
               /\ regressed' = FALSE
               /\ UNCHANGED <<changesResult, polledWorld, isLoading, shownFor>>
    /\ event' = "resolve"
    /\ prevShown' = (changesResult # None)
    /\ UNCHANGED <<sessionId, lifecycle, mountedRef, intervalActive, touchedVars, diffVars, stepVars, laterVars>>

\* a pending getSessionChanges rejects
PollRejectKeepsResult ==
    /\ \E i \in DOMAIN inflight : inflight' = RemoveAt(inflight, i)
    /\ isLoading' = IF mountedRef THEN FALSE ELSE isLoading
    /\ event' = "reject"
    /\ regressed' = FALSE
    /\ prevShown' = (changesResult # None)
    /\ UNCHANGED <<changesResult, polledWorld, shownFor, sessionId, lifecycle, mountedRef,
                   intervalActive, touchedVars, diffVars, stepVars, laterVars>>
PollReject ==
    /\ \E i \in DOMAIN inflight : inflight' = RemoveAt(inflight, i)
    /\ IF mountedRef
       THEN /\ changesResult' = None
            /\ polledWorld' = None
            /\ shownFor' = NoSession
            /\ isLoading' = FALSE
       ELSE UNCHANGED <<changesResult, polledWorld, shownFor, isLoading>>
    /\ event' = "reject"
    /\ regressed' = FALSE
    /\ prevShown' = (changesResult # None)
    /\ UNCHANGED <<sessionId, lifecycle, mountedRef, intervalActive, touchedVars, diffVars, stepVars, laterVars>>

NextPoll ==
    RunEffect \/ IntervalTick \/ ChangeSession \/ Unmount \/ PollResolve \/ PollReject

\* what the render shows: the items of the list and the n of "Changes (n)"
DisplayedChanges ==
    IF sessionId = NoSession \/ changesResult = None THEN <<>> ELSE changesResult[1].files
DisplayedCount == Len(DisplayedChanges)

----------------------------------------------------------------------------
(* useNotificationSounds *)

IDLE_THRESHOLD_SECONDS == 180

SoundTypes  == {"complete", "attention", "error"}
\* what getSystemIdleTime can answer
IdleSeconds == {0, IDLE_THRESHOLD_SECONDS - 1, IDLE_THRESHOLD_SECONDS,
                IDLE_THRESHOLD_SECONDS + 1}

NoPlay ==
    [pc |-> "idle", soundType |-> "none", audio |-> FALSE, enabled |-> FALSE,
     isWindowFocused |-> FALSE, idle |-> <<>>, idleFailed |-> FALSE,
     canPlay |-> FALSE, played |-> FALSE]

SndInit ==
    [mounted |-> TRUE, enabled |-> TRUE, settingLoaded |-> FALSE,
     isWindowFocused |-> TRUE, audioRefs |-> {}, play |-> NoPlay]

\* return idleSeconds > IDLE_THRESHOLD_SECONDS
IdleLongEnoughInclusive(idleSeconds) == idleSeconds >= IDLE_THRESHOLD_SECONDS
IdleLongEnough(idleSeconds) == idleSeconds > IDLE_THRESHOLD_SECONDS

othersOfSound == <<baseVars, walkVars, atomVars, storeVars>>

\* window.electronAPI.getSoundEnabled().then(setEnabledState)
SndSettingLoaded ==
    /\ snd.mounted
    /\ ~snd.settingLoaded
    /\ \E b \in BOOLEAN : snd' = [snd EXCEPT !.enabled = b, !.settingLoaded = TRUE]
    /\ UNCHANGED othersOfSound

\* getSoundPath(soundType) resolves: audioRefs.current[soundType] = audio
SndAudioLoaded ==
    /\ \E t \in SoundTypes \ snd.audioRefs :
          snd' = [snd EXCEPT !.audioRefs = @ \cup {t}]
    /\ UNCHANGED othersOfSound

\* setEnabled(newEnabled)
SndSetEnabled ==
    /\ snd.mounted
    /\ \E newEnabled \in BOOLEAN : snd' = [snd EXCEPT !.enabled = newEnabled]
    /\ UNCHANGED othersOfSound

\* the isWindowFocused option changes with a new render
SndFocusChange ==
    /\ snd.mounted
    /\ snd' = [snd EXCEPT !.isWindowFocused = ~@]
    /\ UNCHANGED othersOfSound

\* the mount effect's cleanup
SndUnmount ==
    /\ snd.mounted
    /\ snd' = [snd EXCEPT !.mounted = FALSE, !.audioRefs = {}]
    /\ UNCHANGED othersOfSound

\* playSound(soundType) up to its first suspension: the audio element is
\* read, shouldPlaySound runs with the enabled and isWindowFocused of the
\* render and either answers at once or awaits getSystemIdleTime
SndPlay ==
    /\ snd.mounted
    /\ snd.play.pc = "idle"
    /\ \E soundType \in SoundTypes :
          LET p == [NoPlay EXCEPT !.soundType = soundType,
                                  !.audio = soundType \in snd.audioRefs,
                                  !.enabled = snd.enabled,
                                  !.isWindowFocused = snd.isWindowFocused]
          IN  snd' = [snd EXCEPT !.play =
                        IF ~snd.enabled THEN [p EXCEPT !.pc = "resume", !.canPlay = FALSE]
                        ELSE IF ~snd.isWindowFocused
                             THEN [p EXCEPT !.pc = "resume", !.canPlay = TRUE]
                             ELSE [p EXCEPT !.pc = "awaitIdle"]]
    /\ UNCHANGED othersOfSound

\* getSystemIdleTime resolves
SndIdleResolves ==
    /\ snd.play.pc = "awaitIdle"
    /\ \E idleSeconds \in IdleSeconds :
          snd' = [snd EXCEPT !.play.pc = "resume", !.play.idle = <<idleSeconds>>,
                             !.play.canPlay = IdleLongEnough(idleSeconds)]
    /\ UNCHANGED othersOfSound

\* getSystemIdleTime rejects: the catch returns false
SndIdleRejects ==
    /\ snd.play.pc = "awaitIdle"
    /\ snd' = [snd EXCEPT !.play.pc = "resume", !.play.idleFailed = TRUE,
                           !.play.canPlay = FALSE]
    /\ UNCHANGED othersOfSound

\* playSound after `await shouldPlaySound()`: audio.play() unless canPlay is
\* false or no audio element was loaded
SndResume ==
    /\ snd.play.pc = "resume"
    /\ snd' = [snd EXCEPT !.play.pc = "done",
                           !.play.played = snd.play.canPlay /\ snd.play.audio]
    /\ UNCHANGED othersOfSound

\* the call is over
SndDone ==
    /\ snd.play.pc = "done"
    /\ snd' = [snd EXCEPT !.play = NoPlay]
    /\ UNCHANGED othersOfSound

NextSound ==
    \/ SndSettingLoaded
    \/ SndAudioLoaded
    \/ SndSetEnabled
    \/ SndFocusChange
    \/ SndUnmount
    \/ SndPlay
    \/ SndIdleResolves
    \/ SndIdleRejects
    \/ SndResume
    \/ SndDone

----------------------------------------------------------------------------
(* projects/storage.ts: findGitRoot *)

MaxPathDepth == 2
MaxWalkSteps == 6
PathNames    == {"a", "b"}
DirSegs      == SeqsUpTo(PathNames, MaxPathDepth)

\* a normalized POSIX path: "/a/b" is absolute with segments a, b; "a/b" is
\* relative; the relative path without segments is "."
AbsPath(segs) == [abs |-> TRUE, segs |-> segs]
RelPath(segs) == [abs |-> FALSE, segs |-> segs]
InputPaths    == {AbsPath(q) : q \in DirSegs} \cup {RelPath(q) : q \in DirSegs}
RootPath      == AbsPath(<<>>)

DropLast(q) == SubSeq(q, 1, Len(q) - 1)

\* path.join(p, '..'), which normalizes its result
JoinDotDot(p) ==
    IF p.abs
    THEN IF p.segs = <<>> THEN p ELSE [p EXCEPT !.segs = DropLast(@)]
    ELSE IF p.segs = <<>> \/ p.segs[Len(p.segs)] = ".."
         THEN [p EXCEPT !.segs = Append(@, "..")]
         ELSE [p EXCEPT !.segs = DropLast(@)]

\* the directory the operating system resolves a path to: relative paths
\* start at the working directory, and ".." of the root is the root
RECURSIVE WalkFrom(_, _)
WalkFrom(dir, segs) ==
    IF segs = <<>> THEN dir
    ELSE WalkFrom(IF Head(segs) = ".."
                  THEN IF dir = <<>> THEN dir ELSE DropLast(dir)
                  ELSE Append(dir, Head(segs)),
                  Tail(segs))
ResolveDir(cwd, p) == WalkFrom(IF p.abs THEN <<>> ELSE cwd, p.segs)

\* the file systems: the process's working directory and the directories
\* that hold a .git entry
GitDirSets  == SUBSET {<<>>, <<"a">>, <<"a", "b">>, <<"b">>}
FileSystems == [cwd : DirSegs, gitDirs : GitDirSets]

\* existsSync(join(p, '.git'))
HasDotGit(fs, p) == ResolveDir(fs.cwd, p) \in fs.gitDirs

NoWalk ==
    [pc |-> "idle", path |-> RootPath, current |-> RootPath,
     fs |-> [cwd |-> <<>>, gitDirs |-> {}], steps |-> 0, result |-> <<>>]

othersOfWalk == <<baseVars, soundVars, atomVars, storeVars>>

\* findGitRoot(path) is called: let current = path
FindGitRootCall ==
    /\ walk.pc = "idle"
    /\ \E path \in InputPaths, fs \in FileSystems :
          walk' = [NoWalk EXCEPT !.pc = "loop", !.path = path, !.current = path, !.fs = fs]
    /\ UNCHANGED othersOfWalk

\* the check of the root after the loop
RootCheck(fs) == IF HasDotGit(fs, RootPath) THEN <<RootPath>> ELSE <<>>

\* one test of the while condition and, when it holds, one run of the body
FindGitRootStep ==
    /\ walk.pc = "loop"
    /\ walk.steps < MaxWalkSteps
    /\ LET current        == walk.current
           resolvedParent == JoinDotDot(current)
       IN  walk' =
             IF current = RootPath
             THEN [walk EXCEPT !.pc = "returned", !.result = RootCheck(walk.fs)]
             ELSE IF HasDotGit(walk.fs, current)
             THEN [walk EXCEPT !.pc = "returned", !.result = <<current>>]
             ELSE IF resolvedParent = current
             THEN [walk EXCEPT !.pc = "returned", !.result = RootCheck(walk.fs)]
             ELSE [walk EXCEPT !.current = resolvedParent, !.steps = @ + 1]
    /\ UNCHANGED othersOfWalk

\* the caller is done with the returned value
FindGitRootReturn ==
    /\ walk.pc = "returned"
    /\ walk' = NoWalk
    /\ UNCHANGED othersOfWalk

NextWalk == FindGitRootCall \/ FindGitRootStep \/ FindGitRootReturn

----------------------------------------------------------------------------
(* The projects atoms *)

MaxProjects  == 2
ProjectIds   == {"p1", "p2", "p3"}
ProjectNames == {Str_a, Str_B}
NoProject    == "<null>"

\* a LoadedProject, by its config.id and config.name
LoadedProjects == [id : ProjectIds, name : ProjectNames]

HasId(list, id) == \E i \in DOMAIN list : list[i].id = id
DistinctIds(list) == \A i, j \in DOMAIN list : list[i].id = list[j].id => i = j


\* [...].sort((a, b) => a.config.name.localeCompare(b.config.name)), stable
RECURSIVE InsertByName(_, _)
InsertByName(sorted, x) ==
    IF sorted = <<>> THEN <<x>>
    ELSE IF LocaleCompare(Head(sorted).name, x.name) <= 0
         THEN <<Head(sorted)>> \o InsertByName(Tail(sorted), x)
         ELSE <<x>> \o sorted
RECURSIVE SortByNameLoop(_, _)
SortByNameLoop(sorted, rest) ==
    IF rest = <<>> THEN sorted
    ELSE SortByNameLoop(InsertByName(sorted, Head(rest)), Tail(rest))
SortByName(list) == SortByNameLoop(<<>>, list)

RECURSIVE FilterOutId(_, _)
FilterOutId(list, id) ==
    IF list = <<>> THEN <<>>
    ELSE IF Head(list).id = id THEN FilterOutId(Tail(list), id)
         ELSE <<Head(list)>> \o FilterOutId(Tail(list), id)

\* the project lists of a workspace, as loadWorkspaceProjects returns them:
\* every project has its own id, and the list is sorted by name
ProjectLists ==
    {l \in SeqsUpTo(LoadedProjects, MaxProjects) : DistinctIds(l) /\ SortByName(l) = l}

AtomsInit == [projects |-> <<>>, selectedProjectId |-> NoProject, sidebarViewMode |-> "all"]

othersOfAtoms == <<baseVars, soundVars, walkVars, storeVars>>

\* selectProjectAtom, with what the sidebar offers: a listed project or
\* null ("All Chats")
SelectProject ==
    /\ \E projectId \in {atoms.projects[i].id : i \in DOMAIN atoms.projects} \cup {NoProject} :
          atoms' = [atoms EXCEPT !.selectedProjectId = projectId,
                                 !.sidebarViewMode =
                                     IF projectId # NoProject THEN "projects" ELSE @]
    /\ UNCHANGED othersOfAtoms

\* initializeProjectsAtom with the projects of the loaded workspace
InitializeProjects ==
    /\ \E projects \in ProjectLists : atoms' = [atoms EXCEPT !.projects = projects]
    /\ UNCHANGED othersOfAtoms

\* addProjectAtom with a newly created project
AddProject ==
    /\ Len(atoms.projects) < MaxProjects
    /\ \E project \in LoadedProjects :
          /\ ~HasId(atoms.projects, project.id)
          /\ atoms' = [atoms EXCEPT !.projects = SortByName(Append(@, project))]
    /\ UNCHANGED othersOfAtoms

\* updateProjectAtom
UpdateProject ==
    /\ \E updatedProject \in LoadedProjects :
          atoms' = [atoms EXCEPT !.projects =
                      SortByName([i \in DOMAIN @ |->
                          IF @[i].id = updatedProject.id THEN updatedProject ELSE @[i]])]
    /\ UNCHANGED othersOfAtoms

\* removeProjectAtom
RemoveProject ==
    /\ \E projectId \in ProjectIds :
          atoms' = [atoms EXCEPT !.projects = FilterOutId(@, projectId),
                                 !.selectedProjectId =
                                     IF @ = projectId THEN NoProject ELSE @]
    /\ UNCHANGED othersOfAtoms

NextAtoms ==
    SelectProject \/ InitializeProjects \/ AddProject \/ UpdateProject \/ RemoveProject

----------------------------------------------------------------------------
(* projects/storage.ts: generateProjectSlug, createProject, updateProject,
   deleteProject *)

MaxStoredProjects == 2
SlugMaxLength     == 50

\* project names: "a", "A", " a", " ", "a 2"
StoreNames == {Str_a, <<65>>, Str_sp_a, Str_sp, <<97, 32, 50>>}
StoreIds   == {"p1", "p2", "p3"}

Str_project == <<112, 114, 111, 106, 101, 99, 116>>

\* [a-z0-9]
IsSlugChar(c) == c \in 97..122 \/ c \in 48..57

\* .replace(/[^a-z0-9]+/g, '-'): every run of other characters becomes one '-'
RECURSIVE ReplaceRuns(_, _)
ReplaceRuns(s, inRun) ==
    IF s = <<>> THEN <<>>
    ELSE IF IsSlugChar(Head(s)) THEN <<Head(s)>> \o ReplaceRuns(Tail(s), FALSE)
    ELSE IF inRun THEN ReplaceRuns(Tail(s), TRUE)
    ELSE <<45>> \o ReplaceRuns(Tail(s), TRUE)

\* .replace(/^-|-$/g, ''): one leading and one trailing '-' are removed
StripDashes(s) ==
    LET t == IF s # <<>> /\ Head(s) = 45 THEN Tail(s) ELSE s
    IN  IF t # <<>> /\ t[Len(t)] = 45 THEN DropLast(t) ELSE t

Substring0(s, n) == SubSeq(s, 1, IF Len(s) < n THEN Len(s) ELSE n)

\* the decimal digits of a positive number, as `${counter}` writes them
RECURSIVE Digits(_)
Digits(n) == IF n < 10 THEN <<48 + n>> ELSE Digits(n \div 10) \o <<48 + (n % 10)>>

BaseSlug(name) ==
    LET slug == Substring0(StripDashes(ReplaceRuns(ToLowerCase(name), FALSE)), SlugMaxLength)
    IN  IF slug = <<>> THEN Str_project ELSE slug

\* while (existingSlugs.has(`${slug}-${counter}`)) counter++
RECURSIVE NextFreeCounter(_, _, _)
NextFreeCounter(existingSlugs, slug, counter) ==
    IF (slug \o <<45>> \o Digits(counter)) \in existingSlugs
    THEN NextFreeCounter(existingSlugs, slug, counter + 1)
    ELSE counter

\* generateProjectSlug, given the names of the directories under projects/
generateProjectSlugNoSuffix(existingSlugs, name) == BaseSlug(name)
generateProjectSlug(existingSlugs, name) ==
    LET slug == BaseSlug(name)
    IN  IF slug \notin existingSlugs THEN slug
        ELSE slug \o <<45>> \o Digits(NextFreeCounter(existingSlugs, slug, 2))

\* the directory names under projects/
ExistingSlugs(dirs) == {c.slug : c \in dirs}

\* saveProjectConfig: writes config.json in the directory of config.slug,
\* creating the directory or replacing the file that is there
saveProjectConfig(dirs, config) == {c \in dirs : c.slug # config.slug} \cup {config}

StoreInit == [dirs |-> {}, op |-> "none", slug |-> <<>>]

othersOfStore == <<baseVars, soundVars, walkVars, atomVars>>

\* createProject(workspaceRootPath, {name, rootPath})
CreateProject ==
    /\ Cardinality(store.dirs) < MaxStoredProjects
    /\ \E name \in StoreNames, id \in StoreIds \ {c.id : c \in store.dirs} :
          LET slug   == generateProjectSlug(ExistingSlugs(store.dirs), name)
              config == [id |-> id, name |-> name, slug |-> slug]
          IN  store' = [dirs |-> saveProjectConfig(store.dirs, config),
                        op |-> "create", slug |-> slug]
    /\ UNCHANGED othersOfStore

\* updateProject(workspaceRootPath, projectSlug, {name}) of an existing project
UpdateStoredProject ==
    /\ \E config \in store.dirs, name \in StoreNames :
          store' = [dirs |-> saveProjectConfig(store.dirs, [config EXCEPT !.name = name]),
                    op |-> "update", slug |-> config.slug]
    /\ UNCHANGED othersOfStore

\* deleteProject(workspaceRootPath, projectSlug) of an existing project
DeleteStoredProject ==
    /\ \E config \in store.dirs :
          store' = [dirs |-> store.dirs \ {config}, op |-> "delete", slug |-> config.slug]
    /\ UNCHANGED othersOfStore

NextStore == CreateProject \/ UpdateStoredProject \/ DeleteStoredProject

----------------------------------------------------------------------------
(* Specifications *)

InitOf(sessions) ==
    /\ files = <<>>
    /\ msg = NoMsg
    /\ contributed = <<>>
    /\ output = <<>>
    /\ readded = FALSE
    /\ tpc = "loop"
    /\ call = NoCall
    /\ fd = FdIdle
    /\ sessionId \in sessions
    /\ lifecycle = "rendered"
    /\ mountedRef = TRUE
    /\ changesResult = None
    /\ isLoading = FALSE
    /\ intervalActive = FALSE
    /\ inflight = <<>>
    /\ event = "init"
    /\ prevShown = FALSE
    /\ polledWorld = None
    /\ shownFor = NoSession
    /\ regressed = FALSE
    /\ snd = SndInit
    /\ walk = NoWalk
    /\ atoms = AtomsInit
    /\ store = StoreInit

\* the function specifications leave the component unrendered for one session
Init     == InitOf({"A"})
\* the component is rendered with any sessionId prop, or none
InitPoll == InitOf(SessionIds \cup {NoSession})

SpecTouched == Init /\ [][NextTouched]_vars
SpecDiff    == Init /\ [][NextDiff]_vars
SpecFileDiff == Init /\ [][NextFileDiff]_vars
SpecPoll    == InitPoll /\ [][NextPoll]_vars
SpecSound   == Init /\ [][NextSound]_vars
SpecWalk    == Init /\ [][NextWalk]_vars
SpecAtoms   == Init /\ [][NextAtoms]_vars
SpecStore   == Init /\ [][NextStore]_vars

----------------------------------------------------------------------------
(* Properties of the polling component *)

\* C1: polls of getSessionChanges are serialized: at most one poll is in
\* flight in every reachable state.
C1_PollsSerialized == Len(inflight) <= 1

HeadEqualsDisk(world, p) ==
    /\ world.head[p].kind = "ok"
    /\ world.disk[p].kind = "ok"
    /\ world.head[p].content = world.disk[p].content

IsDisplayed(p) == \E i \in DOMAIN DisplayedChanges : DisplayedChanges[i].filePath = p

\* C2: a touched file whose HEAD content is byte-identical to its disk content
\* is not an item of the displayed list (and so is not counted in
\* "Changes (n)").
C2_NoNetChangeNeverSurfaced ==
    polledWorld # None =>
        \A p \in SeqToSet(PollTouched) : HeadEqualsDisk(polledWorld[1], p) => ~IsDisplayed(p)

\* C3 (as claimed): a failed poll never clears or changes the displayed result.
C3_FailedPollKeepsResult == [][event' = "reject" => changesResult' = changesResult]_vars

\* C3 (amended): a poll that fails while mountedRef.current is true sets
\* changesResult to null, a poll that fails after the unmount leaves it
\* unchanged, and only a successful poll makes a result displayed again.
C3_FailedPollClearsResult ==
    [][/\ event' = "reject" =>
              changesResult' = IF mountedRef THEN None ELSE changesResult
       /\ (changesResult = None /\ changesResult' # None) => event' = "resolve"]_vars

\* C3 witness: a result was displayed and the failed poll cleared it.
C3_ClearedAfterFailure ==
    event = "reject" /\ prevShown /\ mountedRef /\ changesResult = None

----------------------------------------------------------------------------
(* Properties of getFileDiff and countLineDifferences *)

RetrievalFailed(h, d) ==
    h.kind \in {"not_a_repo", "timeout", "max_buffer"} \/ d.kind = "read_error"

\* C4: when the retrieval of a file's committed or disk content fails, the
\* SessionFileChange getFileDiff produces has its error field populated.
C4_RetrievalFailureSetsError ==
    (call.op = "getFileDiff" /\ RetrievalFailed(call.head, call.disk))
        => "error" \in DOMAIN call.result

LineSet(text) == SeqToSet(SplitLines(text))

Multiplicity(line, lines) == Cardinality({i \in DOMAIN lines : lines[i] = line})

RECURSIVE SumOver(_, _)
SumOver(S, lines) ==
    IF S = {} THEN 0
    ELSE LET x == CHOOSE y \in S : TRUE
         IN  Multiplicity(x, lines) + SumOver(S \ {x}, lines)

\* C6 (as claimed): additions and deletions are the cardinalities of the two
\* set differences of the line-sets, however often a line repeats.
C6_CountsAreSetCardinalities ==
    call.op = "countLineDifferences" =>
        /\ call.result.additions =
               Cardinality(LineSet(call.modified) \ LineSet(call.original))
        /\ call.result.deletions =
               Cardinality(LineSet(call.original) \ LineSet(call.modified))

\* C6 (amended): additions is the number of lines of modified (every
\* occurrence counted) whose content is absent from original's line-set, and
\* deletions the number of lines of original whose content is absent from
\* modified's line-set.
C6_CountsAreLineOccurrences ==
    call.op = "countLineDifferences" =>
        /\ call.result.additions =
               SumOver(LineSet(call.modified) \ LineSet(call.original),
                       SplitLines(call.modified))
        /\ call.result.deletions =
               SumOver(LineSet(call.original) \ LineSet(call.modified),
                       SplitLines(call.original))

\* C6 witness: "a" against "b\nb": one distinct added line, counted twice.
C6_RepeatedLineCountedTwice ==
    /\ call.op = "countLineDifferences"
    /\ call.original = Str_a
    /\ call.modified = <<98, NL, 98>>
    /\ call.result = [additions |-> 2, deletions |-> 1]

\* C11: for every text a, countLineDifferences(a, a) is additions 0 and
\* deletions 0.
C11_EqualTextsCountZero ==
    (call.op = "countLineDifferences" /\ call.original = call.modified)
        => call.result = [additions |-> 0, deletions |-> 0]

\* C11 witness: a two-line text was compared with itself.
C11_SameTextCompared ==
    /\ call.op = "countLineDifferences"
    /\ call.original = <<97, NL, 98>>
    /\ call.modified = <<97, NL, 98>>

IsLinePermutation(u, t) ==
    LET lu == SplitLines(u)
        lt == SplitLines(t)
    IN  /\ Len(lu) = Len(lt)
        /\ \A x \in SeqToSet(lu) \cup SeqToSet(lt) :
               Multiplicity(x, lu) = Multiplicity(x, lt)

LinePermutationsOf(t) == {u \in Texts : IsLinePermutation(u, t)}

C13_StatusClassification ==
    call.op = "getChangeStatus" =>
        /\ call.result = "added" <=> (Len(call.original) = 0 /\ Len(call.modified) > 0)
        /\ call.result = "deleted" <=> (Len(call.original) > 0 /\ Len(call.modified) = 0)
        /\ call.result = "modified" <=>
               (Len(call.original) > 0) = (Len(call.modified) > 0)

\* C13 witness: both texts empty, classified "modified".
C13_BothEmptyIsModified ==
    /\ call.op = "getChangeStatus"
    /\ call.original = <<>>
    /\ call.modified = <<>>
    /\ call.result = "modified"

----------------------------------------------------------------------------
(* Properties of the git.ts functions *)

Settled(c) == ~c.threw /\ ~c.hung

\* C15: getOriginalFromHead never throws, rejects or hangs: it resolves to
\* the HEAD content when `git show` succeeds and to the empty string when the
\* path is not in HEAD, on a timeout, an overrun of the output cap or any
\* other git error.
C15_OriginalFromHeadFailsSoft ==
    call.op = "getOriginalFromHead" =>
        /\ Settled(call.result)
        /\ call.result.value = IF call.head.kind = "ok" THEN call.head.content ELSE <<>>

\* C15 witness: `git show` ran into its timeout and the call resolved to "".
C15_TimeoutResolvedEmpty ==
    /\ call.op = "getOriginalFromHead"
    /\ call.head.kind = "timeout"
    /\ call.result = Returned(<<>>)

\* C16: getCurrentFromDisk never throws or rejects: it resolves to the
\* content of a readable file and to the empty string when the file is
\* missing or the read fails.
C16_CurrentFromDiskFailsSoft ==
    call.op = "getCurrentFromDisk" =>
        /\ Settled(call.result)
        /\ call.result.value = IF call.disk.kind = "ok" THEN call.disk.content ELSE <<>>

\* C16 witness: the file vanished between existsSync and readFile and the
\* call resolved to "".
C16_VanishedFileResolvedEmpty ==
    /\ call.op = "getCurrentFromDisk"
    /\ call.disk.kind = "deleted_after_check"
    /\ call.result = Returned(<<>>)

\* C17: isGitRepo returns true iff `git rev-parse --git-dir` exits
\* successfully; every failure yields false and none throws.
C17_IsGitRepoIffRevParseSucceeds ==
    call.op = "isGitRepo" =>
        /\ Settled(call.result)
        /\ call.result.value <=> call.git = "ok"

\* C17 witness: git is not installed and isGitRepo returned false.
C17_MissingGitIsFalse ==
    call.op = "isGitRepo" /\ call.git = "git_missing" /\ call.result = Returned(FALSE)

\* C18: hasChanges resolves to false only when `git diff --quiet` exits
\* successfully, to true on a difference and on every error, and never throws.
C18_HasChangesFalseOnlyOnCleanExit ==
    call.op = "hasChanges" =>
        /\ Settled(call.result)
        /\ call.result.value <=> call.git # "ok"

\* C18 witness: outside a repository hasChanges resolved to true.
C18_NotARepoIsChanged ==
    call.op = "hasChanges" /\ call.git = "not_a_repo" /\ call.result = Returned(TRUE)

\* C19: getFileDiff never throws or rejects, whatever git and the file system
\* do, and resolves to an entry for the file it was asked about.
C19_FileDiffNeverRejects ==
    call.op = "getFileDiff" =>
        /\ ~call.threw
        /\ call.result.filePath = call.filePath

\* C19 witness: both retrievals failed and getFileDiff still resolved.
C19_ResolvedAfterBothFailed ==
    /\ call.op = "getFileDiff"
    /\ call.head.kind = "timeout"
    /\ call.disk.kind = "read_error"
    /\ ~call.threw

\* C14: within one getFileDiff call the disk read is started before the
\* retrieval of the committed content has completed, so that the two are in
\* progress together, and the entry is computed only once both have completed
C14_RetrievalsIssuedConcurrently ==
    /\ (fd.git = "done" => fd.read # "notStarted")
    /\ (fd.pc = "returned" => fd.git = "done" /\ fd.read = "done")

----------------------------------------------------------------------------
(* Properties of getSessionTouchedFiles *)

ValidPathValue(x) == x.t = "string" /\ \E i \in DOMAIN x.v : ~IsWhite(x.v[i])

SameLetter(c, d) ==
    \/ c = d
    \/ IsUpper(c) /\ d = c + 32
    \/ IsUpper(d) /\ c = d + 32

CaseInsensitiveEq(x, y) == Len(x) = Len(y) /\ \A i \in DOMAIN x : SameLetter(x[i], y[i])

NameAllowListed(n) ==
    n.t = "string" /\ \E k \in {Str_edit, Str_write, Str_multiedit} : CaseInsensitiveEq(n.v, k)

FirstValidField(input) ==
    IF ValidPathValue(input.file_path) THEN <<input.file_path.v>>
    ELSE IF ValidPathValue(input.path) THEN <<input.path.v>>
    ELSE <<>>

\* C5: a tool message with an allow-listed tool name contributes the first of
\* toolInput.file_path, toolInput.path that is a string non-empty after
\* trimming, and nothing when neither is.
C5_FirstValidFieldWins ==
    (/\ tpc = "iterEnd"
     /\ (msg.type = "tool" \/ msg.role = "tool")
     /\ NameAllowListed(msg.toolName))
        => contributed = FirstValidField(msg.toolInput)

Adjacent(q) == 1..(Len(q) - 1)

\* comparison by code unit: case-sensitive byte order
ByteCompare(a, b) == LexCompare(a, b)

\* C7 (as claimed): the output is in ascending code-unit order.
C7_OutputInByteOrder ==
    tpc = "returned" => \A i \in Adjacent(output) : ByteCompare(output[i], output[i + 1]) < 0

\* C7 (amended): the output is in ascending localeCompare order (letters
\* compared without their case first, lowercase before uppercase on a tie).
C7_OutputInLocaleOrder ==
    tpc = "returned" => \A i \in Adjacent(output) : LocaleCompare(output[i], output[i + 1]) < 0

\* C7 witness: an output where the two orders disagree ("a" before "B").
C7_LowercaseBeforeUppercase ==
    /\ tpc = "returned"
    /\ \E i \in Adjacent(output) : ByteCompare(output[i], output[i + 1]) > 0

NoDuplicates(q) == \A i, j \in DOMAIN q : i # j => q[i] # q[j]

\* C8: the output holds no path twice, however many qualifying messages
\* reference the same path.
C8_OutputHasNoDuplicates ==
    /\ NoDuplicates(files)
    /\ tpc = "returned" => (NoDuplicates(output) /\ SeqToSet(output) = SeqToSet(files))

\* C8 witness: a call that met an already collected path returned several paths.
C8_ReturnedAfterRepeatedPath == tpc = "returned" /\ readded /\ Len(output) >= 2

\* C9: a message contributes a path only if its tool name is, without regard
\* to case, one of edit, write, multiedit; and a tool message carrying a
\* valid file_path and such a name (in any letter case) does contribute it.
C9_OnlyAllowListedToolsContribute ==
    tpc = "iterEnd" =>
        /\ contributed # <<>> => NameAllowListed(msg.toolName)
        /\ (/\ NameAllowListed(msg.toolName)
            /\ (msg.type = "tool" \/ msg.role = "tool")
            /\ msg.toolInput.present
            /\ ValidPathValue(msg.toolInput.file_path))
               => contributed = <<msg.toolInput.file_path.v>>

\* C9 witness: a message named "WRITE" contributed its path.
C9_UppercaseNameContributed ==
    tpc = "iterEnd" /\ msg.toolName = JSString(Str_WRITE) /\ contributed # <<>>

\* C10: a message contributes only if its type or its role is "tool", and a
\* message with role "tool" contributes what the otherwise identical message
\* with type "tool" contributes.
C10_TypeAndRoleEquivalent ==
    tpc = "iterEnd" =>
        /\ contributed # <<>> => (msg.type = "tool" \/ msg.role = "tool")
        /\ msg.role = "tool" =>
               contributed = Contribution([msg EXCEPT !.type = "tool", !.role = Absent])
        /\ msg.type = "tool" =>
               contributed = Contribution([msg EXCEPT !.role = "tool", !.type = Absent])

\* C10 witness: a message marked only by role "tool" contributed a path.
C10_RoleOnlyContributed ==
    tpc = "iterEnd" /\ msg.role = "tool" /\ msg.type # "tool" /\ contributed # <<>>

----------------------------------------------------------------------------
(* Properties of a working directory that is not a repository *)

NotARepo == [kind |-> "not_a_repo", content |-> <<>>]

\* C21: when the working directory is not a git repository, isGitRepo is
\* false, getOriginalFromHead resolves to the empty string, and getFileDiff
\* reports status 'added' for every file whose disk content is non-empty
C21_NotARepoReportsAdded ==
    /\ (call.op = "isGitRepo" /\ call.git = "not_a_repo"
            => call.result = Returned(FALSE))
    /\ (call.op = "getOriginalFromHead" /\ call.head = NotARepo
            => call.result = Returned(<<>>))
    /\ (call.op = "getFileDiff" /\ call.head = NotARepo
            /\ call.disk.kind = "ok" /\ call.disk.content # <<>>
            => /\ call.result.status = "added"
               /\ call.result.original = <<>>
               /\ call.result.modified = call.disk.content)

C21_NonEmptyFileOutsideRepo ==
    /\ call.op = "getFileDiff"
    /\ call.head = NotARepo
    /\ call.disk = DiskOk(Str_a)
    /\ call.result.status = "added"

----------------------------------------------------------------------------
(* Properties of useNotificationSounds *)

\* C22: a playSound call plays only if sounds are enabled and the window is
\* either not focused, or focused with an idle time strictly above 180
\* seconds; disabled sounds, a focused window without that idle time, and a
\* failed idle-time query while focused all play nothing
C22_SoundOnlyWhenAwayOrIdle ==
    snd.play.pc = "done" =>
        LET p == snd.play
            idleAbove == p.idle # <<>> /\ p.idle[1] > IDLE_THRESHOLD_SECONDS
        IN  /\ p.played => p.enabled /\ (~p.isWindowFocused \/ idleAbove)
            /\ ~p.enabled => ~p.played
            /\ p.isWindowFocused /\ ~idleAbove => ~p.played
            /\ p.isWindowFocused /\ p.idleFailed => ~p.played

C22_PlayedWhileFocusedAndIdle ==
    /\ snd.play.pc = "done"
    /\ snd.play.played
    /\ snd.play.isWindowFocused
    /\ snd.play.idle = <<IDLE_THRESHOLD_SECONDS + 1>>

----------------------------------------------------------------------------
(* Properties of findGitRoot *)

\* the directories at or above dir that hold a .git entry, by their depth
GitAncestorDepths(fs, dir) == {k \in 0..Len(dir) : SubSeq(dir, 1, k) \in fs.gitDirs}
MaxOf(S) == CHOOSE k \in S : \A j \in S : j <= k

WalkVisitsEachDirectoryOnce ==
    walk.pc = "loop" => walk.steps <= Len(ResolveDir(walk.fs.cwd, walk.path))

WalkResultIsNearestGitRoot ==
    walk.pc = "returned" =>
        LET dir    == ResolveDir(walk.fs.cwd, walk.path)
            depths == GitAncestorDepths(walk.fs, dir)
        IN  IF depths = {} THEN walk.result = <<>>
            ELSE /\ walk.result # <<>>
                 /\ ResolveDir(walk.fs.cwd, walk.result[1]) = SubSeq(dir, 1, MaxOf(depths))

\* C23: findGitRoot terminates for every absolute or relative path, having
\* moved up at most once per directory between the path and the root, and
\* returns the nearest directory at or above the path with a .git entry, or
\* null when there is none
C23_FindGitRootTerminates ==
    /\ WalkVisitsEachDirectoryOnce
    /\ WalkResultIsNearestGitRoot

----------------------------------------------------------------------------
(* Properties of the polling component across session changes and unmount *)

\* C24: after the sessionId prop has changed, changesResult is never set to
\* a result fetched for the previous session: a result stored by a
\* completing poll is one fetched for the session now shown
C24_StoredResultIsForShownSession ==
    event = "resolve" /\ mountedRef => shownFor = sessionId

\* C25: the stored result never regresses: once a poll's result has been
\* stored, no poll of that session issued before it stores its result
C25_NoOlderSnapshotStored == ~regressed

\* C26: after the unmount no getSessionChanges call is issued, and the
\* completion of a pending poll, successful or failed, leaves changesResult
\* and isLoading unchanged
C26_NothingHappensAfterUnmount ==
    [][lifecycle = "unmounted" =>
          /\ changesResult' = changesResult
          /\ isLoading' = isLoading
          /\ Len(inflight') <= Len(inflight)
          /\ event' \in {"resolve", "reject"}]_vars

C26_PollCompletedAfterUnmount ==
    /\ lifecycle = "unmounted"
    /\ event \in {"resolve", "reject"}
    /\ isLoading
    /\ inflight = <<>>

----------------------------------------------------------------------------
(* Properties of the entries getFileDiff produces *)

\* C27: an entry has additions = 0 and deletions = 0 exactly when the
\* committed content equals the disk content; contents that differ, be it
\* only in the order or the repetition of lines, give additions + deletions > 0
C27_ZeroCountsIffContentsEqual ==
    call.op = "getFileDiff" =>
        ((call.result.additions = 0 /\ call.result.deletions = 0)
            <=> getOriginalFromHead(call.head) = getCurrentFromDisk(call.disk))

\* C28: an entry with status 'added' has deletions = 0 and an entry with
\* status 'deleted' has additions = 0
C28_StatusAndCountsConsistent ==
    call.op = "getFileDiff" =>
        /\ (call.result.status = "added" => call.result.deletions = 0)
        /\ (call.result.status = "deleted" => call.result.additions = 0)

----------------------------------------------------------------------------
(* Properties of the projects atoms *)

\* C29: after any sequence of the action atoms, selectedProjectIdAtom is
\* null or the id of a project present in projectsAtom
C29_SelectionNeverDangling ==
    \/ atoms.selectedProjectId = NoProject
    \/ HasId(atoms.projects, atoms.selectedProjectId)

----------------------------------------------------------------------------
(* Properties of the project storage *)

====
